---- MODULE Spec2Model ----
(***************************************************************************)
(* Model of ImageToBitmap: the conversion engine convert_image_to_bitmap   *)
(* (Source/imagetobitmap.py) and the command-line main                     *)
(* (Command Line Version/imgtobmp.py).                                     *)
(*                                                                         *)
(* Text is a sequence of one-character strings (and a few multi-character  *)
(* tokens that the code writes with one f.write call).  A path is a record *)
(* [parent, name]: parent is the sequence of directory names below the     *)
(* working directory, name the file name as a sequence of characters.      *)
(***************************************************************************)
EXTENDS Integers, Sequences, FiniteSets, TLC

VARIABLES
    pc,               \* position in the running function
    entry,            \* "gui": convert_image_to_bitmap, "cli": main
    image_file,       \* argument: path of the source image
    bits_per_pixel,   \* argument: bits per pixel
    output,           \* argument: output path, or None
    dirs,             \* file system: the directories that exist
    files,            \* file system: path -> content of each existing file
    out_path,         \* local out_path
    img,              \* local img: [width, height, mode, px]
    palette,          \* local palette (flat R,G,B list)
    colors,           \* local colors (list of palette words, as text)
    image_bitstring,  \* local image_bitstring
    result,           \* the call's outcome: returned path or exception
    fs0               \* history: the file system when the call began

vars == <<pc, entry, image_file, bits_per_pixel, output, dirs, files,
          out_path, img, palette, colors, image_bitstring, result, fs0>>

None == [none |-> TRUE]

----------------------------------------------------------------------------
(* Bounds of the checked instances.                                        *)

MaxPixels == 4      \* SpecPack, SpecMono: images of at most this many pixels
MaxSide == 4        \* SpecPack, SpecMono: width and height at most this
MaxWide == 34       \* SpecChunk: one-row images up to this width
MaxSeed == 2        \* SpecChunk: index patterns 0..MaxSeed

----------------------------------------------------------------------------
(* Integer and text primitives of the Python code.                         *)

Pow2(n) == 2 ^ n

RECURSIVE BitAnd(_, _)
\* a & b on non-negative integers
BitAnd(a, b) ==
    IF a = 0 \/ b = 0 THEN 0
    ELSE (IF a % 2 = 1 /\ b % 2 = 1 THEN 1 ELSE 0) + 2 * BitAnd(a \div 2, b \div 2)

RECURSIVE BitOr(_, _)
\* a | b on non-negative integers
BitOr(a, b) ==
    IF a = 0 THEN b
    ELSE IF b = 0 THEN a
    ELSE (IF a % 2 = 1 \/ b % 2 = 1 THEN 1 ELSE 0) + 2 * BitOr(a \div 2, b \div 2)

Shl(a, n) == a * Pow2(n)
Shr(a, n) == a \div Pow2(n)

HexDigits == <<"0", "1", "2", "3", "4", "5", "6", "7",
               "8", "9", "a", "b", "c", "d", "e", "f">>

RECURSIVE HexText(_)
\* the digits of format(n, "x")
HexText(n) ==
    IF n < 16 THEN <<HexDigits[n + 1]>>
    ELSE HexText(n \div 16) \o <<HexDigits[(n % 16) + 1]>>

RECURSIVE ZeroPad(_, _)
\* a format width with zero fill: pads on the left, never truncates
ZeroPad(s, width) == IF Len(s) >= width THEN s ELSE ZeroPad(<<"0">> \o s, width)

\* f"{n:04x}" and f"{n:02x}"
FormatHex(n, width) == ZeroPad(HexText(n), width)

RECURSIVE DecText(_)
\* f"{n}" for n >= 0
DecText(n) ==
    IF n < 10 THEN <<HexDigits[n + 1]>>
    ELSE DecText(n \div 10) \o <<HexDigits[(n % 10) + 1]>>

RECURSIVE IntBase2Acc(_, _)
IntBase2Acc(s, acc) ==
    IF s = <<>> THEN acc
    ELSE IntBase2Acc(Tail(s), 2 * acc + (IF Head(s) = "1" THEN 1 ELSE 0))

\* int(value, 2); the empty string raises ValueError, modelled as -1
IntBase2(value) == IF value = <<>> THEN -1 ELSE IntBase2Acc(value, 0)

\* s[i:j] of Python, 0-based, clipped at the end of s
Slice(s, i, j) == SubSeq(s, i + 1, IF j < Len(s) THEN j ELSE Len(s))

----------------------------------------------------------------------------
(* Color Packer: lines 87-97.                                              *)

\* the bug a reimplementation would make: the byte swap left out
Pack565_NoSwap(r, g, b) ==
    BitOr(BitOr(Shl(BitAnd(r, 248), 8), Shl(BitAnd(g, 252), 3)), Shr(b, 3))

Pack565(r, g, b) ==
    LET color565 == BitOr(BitOr(Shl(BitAnd(r, 248), 8), Shl(BitAnd(g, 252), 3)),
                          Shr(b, 3))
    IN  Shl(BitAnd(color565, 255), 8) + Shr(BitAnd(color565, 65280), 8)

\* one entry of colors: f'0x{color565:04x}'
ColorWord(pal, color) ==
    <<"0", "x">> \o FormatHex(Pack565(pal[color * 3 + 1], pal[color * 3 + 2],
                                      pal[color * 3 + 3]), 4)

\* the loop over range(1 << bits)
PaletteWords(pal, bits) == [c \in 1..Pow2(bits) |-> ColorWord(pal, c - 1)]

----------------------------------------------------------------------------
(* Bit Packer: lines 99-107.                                               *)

\* the bug: the bits of a pixel written least-significant bit first
PixelBits_LsbFirst(pixel, bits) ==
    [k \in 1..bits |-> IF BitAnd(pixel, Shl(1, k - 1)) # 0 THEN "1" ELSE "0"]

\* the inner loop: for bit in range(bits, 0, -1); the k-th character written
\* is the one for bit = bits - k + 1
PixelBits(pixel, bits) ==
    [k \in 1..bits |->
        IF BitAnd(pixel, Shl(1, (bits - k + 1) - 1)) # 0 THEN "1" ELSE "0"]

\* img.getpixel((x, y)): px holds the rows one after the other
GetPixel(im, x, y) == im.px[y * im.width + x + 1]

RECURSIVE RowBits(_, _, _, _)
\* for x in range(img.width), from x on
RowBits(im, bits, y, x) ==
    IF x >= im.width THEN <<>>
    ELSE PixelBits(GetPixel(im, x, y), bits) \o RowBits(im, bits, y, x + 1)

RECURSIVE BitString(_, _, _)
\* for y in range(img.height), from y on
BitString(im, bits, y) ==
    IF y >= im.height THEN <<>>
    ELSE RowBits(im, bits, y, 0) \o BitString(im, bits, y + 1)

----------------------------------------------------------------------------
(* Module Emitter: lines 112-132.                                          *)

RECURSIVE JoinRange(_, _, _)
\* ",".join(words[lo-1:hi]), by halves
JoinRange(words, lo, hi) ==
    IF lo > hi THEN <<>>
    ELSE IF lo = hi THEN words[lo]
    ELSE LET mid == (lo + hi) \div 2
         IN  JoinRange(words, lo, mid) \o <<",">> \o JoinRange(words, mid + 1, hi)

\* line 118: ",".join(colors)
JoinComma(words) == JoinRange(words, 1, Len(words))

\* the five scalar fields and the palette line, lines 112-119
HeaderText(im, bits, bitmap_bits, cols) ==
       <<"HEIGHT = ">> \o DecText(im.height) \o <<"\n">>
    \o <<"WIDTH = ">> \o DecText(im.width) \o <<"\n">>
    \o <<"COLORS = ">> \o DecText(Shl(1, bits)) \o <<"\n">>
    \o <<"BITS = ">> \o DecText(bitmap_bits) \o <<"\n">>
    \o <<"BPP = ">> \o DecText(bits) \o <<"\n">>
    \o <<"PALETTE = [">> \o JoinComma(cols) \o <<"]\n\n">>

\* the bug: a segment break before every 16th byte, the first one included
NeedsBreak_NoGuard(i) == i % (16 * 8) = 0

\* the bug: the loop stops before a last group of fewer than 8 bits
GroupStarts_WholeOnly(bitmap_bits) == {i \in 0..(bitmap_bits - 8) : i % 8 = 0}

\* line 124: range(0, bitmap_bits, 8)
GroupStarts(bitmap_bits) == {i \in 0..(bitmap_bits - 1) : i % 8 = 0}

\* line 125: if i and i % (16 * 8) == 0
NeedsBreak(i) == i # 0 /\ i % (16 * 8) = 0

\* lines 127-128: value = image_bitstring[i:i + 8]; color = int(value, 2)
ByteOf(value) == IntBase2(value)

RECURSIVE BitmapBytes(_, _)
\* the loop for i in range(0, bitmap_bits, 8), from i on
BitmapBytes(bitstring, i) ==
    IF i \notin GroupStarts(Len(bitstring)) THEN <<>>
    ELSE LET color == ByteOf(Slice(bitstring, i, i + 8))
         IN  (IF NeedsBreak(i) THEN <<"'\\\nb'">> ELSE <<>>)
             \o (IF color < 0 THEN <<"ValueError">>
                 ELSE <<"\\x">> \o FormatHex(color, 2))
             \o BitmapBytes(bitstring, i + 8)

\* lines 121-132
BitmapText(bitstring) ==
       <<"_bitmap = \\\n", "b'">>
    \o BitmapBytes(bitstring, 0)
    \o <<"'\n", "BITMAP = memoryview(_bitmap)\n">>

----------------------------------------------------------------------------
(* pathlib: the operations on Path the code uses.                          *)

RECURSIVE RFind(_, _)
\* name.rfind(c) as a 1-based position, 0 when c does not occur
RFind(name, c) ==
    IF name = <<>> THEN 0
    ELSE IF name[Len(name)] = c THEN Len(name)
    ELSE RFind(SubSeq(name, 1, Len(name) - 1), c)

\* PurePath.suffix: the last dot and what follows it, unless the dot is the
\* first or the last character of the name
Suffix(name) ==
    LET i == RFind(name, ".")
    IN  IF 1 < i /\ i < Len(name) THEN SubSeq(name, i, Len(name)) ELSE <<>>

LowerChar(c) ==
    CASE c = "P" -> "p"
      [] c = "Y" -> "y"
      [] c = "T" -> "t"
      [] c = "X" -> "x"
      [] OTHER -> c

\* str.lower
Lower(s) == [k \in 1..Len(s) |-> LowerChar(s[k])]

DotPy == <<".", "p", "y">>

\* PurePath.with_suffix(".py")
WithSuffixPy(path) ==
    LET old == Suffix(path.name)
    IN  [parent |-> path.parent,
         name |-> SubSeq(path.name, 1, Len(path.name) - Len(old)) \o DotPy]

\* Path.is_file
IsFile(fs, path) == path \in DOMAIN fs

\* the directories Path.mkdir(parents=True, exist_ok=True) leaves in place
MkdirParents(ds, dir) == ds \cup {SubSeq(dir, 1, k) : k \in 0..Len(dir)}

\* open(path, "w"): the file is created, or truncated when it exists
OpenForWrite(fs, path) == (path :> [kind |-> "text", text |-> <<>>]) @@ fs

\* f.write(text) on the file opened at path
Write(fs, path, text) ==
    [fs EXCEPT ![path] = [kind |-> "text", text |-> fs[path].text \o text]]

Raised(exc, line) == [raised |-> exc, line |-> line]

----------------------------------------------------------------------------
(* Quantizer: lines 68-85.                                                 *)

\* the bug: the threshold taken inclusively
Threshold_Inclusive(p) == IF p >= 127 THEN 255 ELSE 0

\* line 71: lambda p: 255 if p > 127 else 0
Threshold(p) == IF p > 127 THEN 255 ELSE 0

\* lines 70-72: convert("L"), point(..., mode='1'), convert("P").  A mode '1'
\* image holds 0 or 255 per pixel and the conversion to 'P' keeps the values
\* as the indices.
MonoIndexed(im) ==
    [width |-> im.width, height |-> im.height, mode |-> "P",
     px |-> [k \in 1..Len(im.px) |-> Threshold(im.px[k])]]

\* lines 75-80: the palette forced by putpalette
MonoPalette == <<0, 0, 0, 255, 255, 255>> \o [k \in 1..(3 * 254) |-> 0]

\* Image.ADAPTIVE is Pillow's quantizer: which palette and which indices it
\* gives is its choice.  A palette of 2**bits colours stands for it.
AdaptivePalette(bits) ==
    [k \in 1..(3 * Pow2(bits)) |->
        ((((k - 1) \div 3) * 37) + ((k - 1) % 3) * 91 + 5) % 256]

\* indices a pixel of a 2**bits colour image is given in the checked instances
PixelVals(bits) ==
    IF bits = 1 THEN {0, 255}
    ELSE {0, Pow2(bits - 1), Pow2(bits) - 1, Pow2(bits) \div 3}

\* the indices Image.ADAPTIVE may give a pixel: any of range(2**bits); the
\* first and the last stand for them
AdaptiveIndices(bits) == {0, Pow2(bits) - 1}

----------------------------------------------------------------------------
(* The steps of convert_image_to_bitmap (Source/imagetobitmap.py) and of   *)
(* main (Command Line Version/imgtobmp.py).  main repeats the engine's     *)
(* code from Image.open on, without the mkdir; the shared steps are one    *)
(* action each.                                                            *)

\* the bug: the lower limit off by one
BppInvalid_OffByOne(bits) == bits < 0 \/ bits > 8

\* line 52: bits_per_pixel < 1 or bits_per_pixel > 8
BppInvalid(bits) == bits < 1 \/ bits > 8

\* lines 52-53
Validate ==
    /\ pc = "call" /\ entry = "gui"
    /\ IF BppInvalid(bits_per_pixel)
       THEN pc' = "raised" /\ result' = Raised("ValueError", 53)
       ELSE pc' = "checkfile" /\ result' = result
    /\ UNCHANGED <<entry, image_file, bits_per_pixel, output, dirs, files,
                   out_path, img, palette, colors, image_bitstring, fs0>>

\* lines 55-57
CheckFile ==
    /\ pc = "checkfile"
    /\ IF ~IsFile(files, image_file)
       THEN pc' = "raised" /\ result' = Raised("FileNotFoundError", 57)
       ELSE pc' = "outpath" /\ result' = result
    /\ UNCHANGED <<entry, image_file, bits_per_pixel, output, dirs, files,
                   out_path, img, palette, colors, image_bitstring, fs0>>

\* the bug: the extension compared without .lower()
CorrectedPath_CaseSensitive(path) ==
    IF Suffix(path.name) # DotPy THEN WithSuffixPy(path) ELSE path

\* lines 62-63
CorrectedPath(path) ==
    IF Lower(Suffix(path.name)) # DotPy THEN WithSuffixPy(path) ELSE path

\* lines 59-63
ResolveOutPath ==
    /\ pc = "outpath"
    /\ out_path' = CorrectedPath(IF output # None THEN output
                                 ELSE WithSuffixPy(image_file))
    /\ pc' = "open"
    /\ UNCHANGED <<entry, image_file, bits_per_pixel, output, dirs, files,
                   img, palette, colors, image_bitstring, result, fs0>>

\* main, lines 17-39: argparse refuses a bits_per_pixel outside range(1, 9)
ParseArgs ==
    /\ pc = "call" /\ entry = "cli"
    /\ IF bits_per_pixel \notin 1..8
       THEN pc' = "raised" /\ result' = Raised("SystemExit", 35)
            /\ out_path' = out_path
       ELSE /\ pc' = "open" /\ result' = result
            /\ out_path' = IF output # None THEN output
                           ELSE WithSuffixPy(image_file)
    /\ UNCHANGED <<entry, image_file, bits_per_pixel, output, dirs, files,
                   img, palette, colors, image_bitstring, fs0>>

\* line 65 (main: line 41): Image.open
OpenImage ==
    /\ pc = "open"
    /\ IF ~IsFile(files, image_file)
       THEN pc' = "raised"
            /\ result' = Raised("FileNotFoundError", IF entry = "gui" THEN 65 ELSE 41)
            /\ img' = img
       ELSE IF files[image_file].kind # "image"
       THEN pc' = "raised"
            /\ result' = Raised("DecodeError", IF entry = "gui" THEN 65 ELSE 41)
            /\ img' = img
       ELSE /\ pc' = "quantize" /\ result' = result
            /\ img' = [width |-> files[image_file].width,
                       height |-> files[image_file].height,
                       mode |-> "L",
                       px |-> files[image_file].lum]
    /\ UNCHANGED <<entry, image_file, bits_per_pixel, output, dirs, files,
                   out_path, palette, colors, image_bitstring, fs0>>

\* lines 68-85 (main: lines 42-57)
Quantize ==
    /\ pc = "quantize"
    /\ IF bits_per_pixel = 1
       THEN img' = MonoIndexed(img) /\ palette' = MonoPalette
       ELSE /\ \E px \in [1..Len(img.px) -> AdaptiveIndices(bits_per_pixel)] :
                 img' = [width |-> img.width, height |-> img.height,
                         mode |-> "P", px |-> px]
            /\ palette' = AdaptivePalette(bits_per_pixel)
    /\ pc' = "palette"
    /\ UNCHANGED <<entry, image_file, bits_per_pixel, output, dirs, files,
                   out_path, colors, image_bitstring, result, fs0>>

\* lines 87-97 (main: lines 59-69)
PackPalette ==
    /\ pc = "palette"
    /\ colors' = PaletteWords(palette, bits_per_pixel)
    /\ pc' = "pack"
    /\ UNCHANGED <<entry, image_file, bits_per_pixel, output, dirs, files,
                   out_path, img, palette, image_bitstring, result, fs0>>

\* lines 99-107 (main: lines 71-79)
PackBits ==
    /\ pc = "pack"
    /\ image_bitstring' = BitString(img, bits_per_pixel, 0)
    /\ pc' = IF entry = "gui" THEN "mkdir" ELSE "openout"
    /\ UNCHANGED <<entry, image_file, bits_per_pixel, output, dirs, files,
                   out_path, img, palette, colors, result, fs0>>

\* line 109; main has no such step
Mkdir ==
    /\ pc = "mkdir"
    /\ dirs' = MkdirParents(dirs, out_path.parent)
    /\ pc' = "openout"
    /\ UNCHANGED <<entry, image_file, bits_per_pixel, output, files,
                   out_path, img, palette, colors, image_bitstring, result, fs0>>

\* line 111 (main: line 81)
OpenOut ==
    /\ pc = "openout"
    /\ IF out_path.parent \notin dirs
       THEN pc' = "raised"
            /\ result' = Raised("FileNotFoundError", IF entry = "gui" THEN 111 ELSE 81)
            /\ files' = files
       ELSE pc' = "header" /\ result' = result
            /\ files' = OpenForWrite(files, out_path)
    /\ UNCHANGED <<entry, image_file, bits_per_pixel, output, dirs,
                   out_path, img, palette, colors, image_bitstring, fs0>>

\* lines 112-119 (main: lines 83-90)
WriteHeader ==
    /\ pc = "header"
    /\ files' = Write(files, out_path,
                      HeaderText(img, bits_per_pixel, Len(image_bitstring), colors))
    /\ pc' = "bitmap"
    /\ UNCHANGED <<entry, image_file, bits_per_pixel, output, dirs,
                   out_path, img, palette, colors, image_bitstring, result, fs0>>

\* lines 121-132 (main: lines 92-105)
WriteBitmap ==
    /\ pc = "bitmap"
    /\ LET text == BitmapText(image_bitstring)
       IN  /\ files' = Write(files, out_path, text)
           /\ IF \E k \in 1..Len(text) : text[k] = "ValueError"
              THEN pc' = "raised" /\ result' = Raised("ValueError", 128)
              ELSE pc' = "return" /\ result' = result
    /\ UNCHANGED <<entry, image_file, bits_per_pixel, output, dirs,
                   out_path, img, palette, colors, image_bitstring, fs0>>

\* line 134: return out_path (main, line 107: print and fall off the end)
Return ==
    /\ pc = "return"
    /\ pc' = "done"
    /\ result' = IF entry = "gui" THEN out_path ELSE None
    /\ UNCHANGED <<entry, image_file, bits_per_pixel, output, dirs, files,
                   out_path, img, palette, colors, image_bitstring, fs0>>

----------------------------------------------------------------------------
(* Spec: one call of the engine or of main, over a small file system.      *)

ImagePath == [parent |-> <<>>, name |-> <<"i", ".", "p", "n", "g">>]

OutNames ==
    { <<"o">>, <<"o", ".", "p", "y">>, <<"o", ".", "P", "Y">>,
      <<"o", ".", "t", "x", "t">>, <<".", "p", "y">>,
      <<"o", ".", "p", "y", ".", "t", "x", "t">> }

OutDirs == { <<>>, <<"d">>, <<"d", "e">> }

TreeStates == { {<<>>}, {<<>>, <<"d">>} }

\* the source images of w x h <= n pixels, each pixel a luminance
SourceImages(n, side, lums) ==
    UNION { UNION { { [kind |-> "image", width |-> w, height |-> h, lum |-> l]
                      : l \in [1..(w * h) -> lums] }
                    : h \in {hh \in 0..side : w * hh <= n} }
            : w \in 0..side }

OldText == [kind |-> "text", text |-> <<"old">>]

\* files that may be there before the call: one at the path a call without
\* output writes, one at a supplied path that needs no correction
OldPaths ==
    { [parent |-> <<>>, name |-> <<"i", ".", "p", "y">>],
      [parent |-> <<>>, name |-> <<"o", ".", "p", "y">>] }

\* the bits_per_pixel of the calls: both limits, a value beyond each, and
\* the adaptive path before the 1-bit one, whose palette has 256 entries
CallBpps == <<2, 0, 9, 8, 1>>

Init ==
    /\ pc = "call"
    /\ entry \in {"gui", "cli"}
    /\ image_file = ImagePath
    /\ \E k \in DOMAIN CallBpps : bits_per_pixel = CallBpps[k]
    /\ output \in {None} \cup [parent : OutDirs, name : OutNames]
    /\ dirs \in TreeStates
    /\ \E old \in {{}, OldPaths} :
         \E src \in SourceImages(1, 1, {255}) \cup {[kind |-> "garbage"], None} :
            files = [p \in old \cup (IF src = None THEN {} ELSE {ImagePath}) |->
                        IF p = ImagePath THEN src ELSE OldText]
    /\ out_path = None /\ img = None /\ palette = None /\ colors = None
    /\ image_bitstring = None /\ result = None
    /\ fs0 = [dirs |-> dirs, files |-> files]

Next ==
    \/ Validate
    \/ CheckFile
    \/ ResolveOutPath
    \/ ParseArgs
    \/ OpenImage
    \/ Quantize
    \/ PackPalette
    \/ PackBits
    \/ Mkdir
    \/ OpenOut
    \/ WriteHeader
    \/ WriteBitmap
    \/ Return

Spec == Init /\ [][Next]_vars

----------------------------------------------------------------------------
(* The pipeline from a given point on, for the claims about one stage: the *)
(* call is convert_image_to_bitmap("i.png", bits) in a directory that      *)
(* holds only the image.                                                   *)

\* the state of the call's file system and arguments
PlainCall(src) ==
    /\ entry = "gui"
    /\ image_file = ImagePath
    /\ output = None
    /\ dirs = {<<>>}
    /\ files = (ImagePath :> src)
    /\ out_path = WithSuffixPy(ImagePath)
    /\ result = None
    /\ fs0 = [dirs |-> dirs, files |-> files]

Indexed(w, h, px) == [width |-> w, height |-> h, mode |-> "P", px |-> px]

Source(w, h, lum) == [kind |-> "image", width |-> w, height |-> h, lum |-> lum]

NextFromPalette ==
    \/ PackPalette
    \/ PackBits
    \/ Mkdir
    \/ OpenOut
    \/ WriteHeader
    \/ WriteBitmap
    \/ Return

\* the text written to the output file so far
Written == files[out_path].text

\* the position of the first occurrence of token tok in text, 0 if none
Find(text, tok) ==
    IF \E k \in 1..Len(text) : text[k] = tok
    THEN CHOOSE k \in 1..Len(text) :
            text[k] = tok /\ \A j \in 1..(k - 1) : text[j] # tok
    ELSE 0

\* the value of a lowercase hexadecimal digit, -1 for any other character
HexVal(ch) ==
    IF \E d \in 0..15 : HexDigits[d + 1] = ch
    THEN CHOOSE d \in 0..15 : HexDigits[d + 1] = ch
    ELSE -1

----------------------------------------------------------------------------
(* SpecColor: the Color Packer on palettes of four entries, one of them    *)
(* ranging over the RGB triples with two channels at the mask boundaries.  *)

ChannelEdges == {0, 7, 248, 252, 255}

TestTriples ==
    { t \in (0..255) \X ChannelEdges \X ChannelEdges : TRUE }
    \cup { t \in ChannelEdges \X (0..255) \X ChannelEdges : TRUE }
    \cup { t \in ChannelEdges \X ChannelEdges \X (0..255) : TRUE }

\* a palette of four colours with t at entry at (0-based)
PaletteWith(t, at) ==
    [k \in 1..12 |->
        IF (k - 1) \div 3 = at THEN t[((k - 1) % 3) + 1]
        ELSE <<248, 0, 0, 0, 252, 0, 0, 0, 248, 8, 4, 8>>[k]]

InitColor ==
    /\ pc = "palette"
    /\ bits_per_pixel = 2
    /\ \E t \in TestTriples : \E at \in {0, 3} : palette = PaletteWith(t, at)
    /\ img = Indexed(1, 1, <<3>>)
    /\ PlainCall(Source(1, 1, <<255>>))
    /\ colors = None
    /\ image_bitstring = None

SpecColor == InitColor /\ [][NextFromPalette]_vars

\* the word the specification gives for (r, g, b), in arithmetic:
\* the channels cut to 5, 6 and 5 bits and laid side by side
PreSwap(r, g, b) == (r - (r % 8)) * 256 + (g - (g % 4)) * 8 + (b \div 8)
Swapped(w) == (w % 256) * 256 + (w \div 256)

\* the 0-based entry c of the PALETTE line of the written text
EmittedWord(c) ==
    LET at == Find(Written, "PALETTE = [")
    IN  SubSeq(Written, at + 1 + 7 * c, at + 6 + 7 * c)

\* C5: every palette entry (R,G,B) is emitted as the byte swap of
\* (R&0xF8)<<8 | (G&0xFC)<<3 | (B>>3); neither value exceeds 0xFFFF; the
\* word is "0x" and exactly four lowercase hex digits; words are in palette
\* order, comma separated; (248,0,0) gives 0x00f8, (248,252,255) gives 0xffff
C5_PaletteWord ==
    pc \in {"bitmap", "return", "done"} =>
        LET at == Find(Written, "PALETTE = [")
            n == Pow2(bits_per_pixel)
        IN  /\ at > 0
            /\ Written[at + 7 * n] = "]\n\n"
            /\ \A c \in 0..(n - 1) :
                 LET r == palette[3 * c + 1]
                     g == palette[3 * c + 2]
                     b == palette[3 * c + 3]
                     pre == PreSwap(r, g, b)
                     w == EmittedWord(c)
                 IN  /\ pre <= 65535 /\ Swapped(pre) <= 65535
                     /\ w[1] = "0" /\ w[2] = "x"
                     /\ \A k \in 3..6 : HexVal(w[k]) >= 0
                     /\ 4096 * HexVal(w[3]) + 256 * HexVal(w[4])
                        + 16 * HexVal(w[5]) + HexVal(w[6]) = Swapped(pre)
                     /\ w = colors[c + 1]
                     /\ (c < n - 1 => Written[at + 7 + 7 * c] = ",")
                     /\ (<<r, g, b>> = <<248, 0, 0>>
                            => pre = 63488 /\ w = <<"0", "x", "0", "0", "f", "8">>)
                     /\ (<<r, g, b>> = <<248, 252, 255>>
                            => pre = 65535 /\ w = <<"0", "x", "f", "f", "f", "f">>)

\* a palette whose last entry is (7, 252, 255) has been written
C5_Witness ==
    /\ pc = "done"
    /\ <<palette[10], palette[11], palette[12]>> = <<7, 252, 255>>
    /\ <<palette[1], palette[2], palette[3]>> = <<248, 0, 0>>
    /\ EmittedWord(0) = <<"0", "x", "0", "0", "f", "8">>
    /\ EmittedWord(3) = <<"0", "x", "f", "f", "0", "7">>

----------------------------------------------------------------------------
(* Reading the written module back, as Python reads it.                    *)

RECURSIVE DecValue(_, _, _)
\* the decimal number that starts at position k of text, acc so far
DecValue(text, k, acc) ==
    IF k > Len(text) \/ HexVal(text[k]) < 0 \/ HexVal(text[k]) > 9 THEN acc
    ELSE DecValue(text, k + 1, 10 * acc + HexVal(text[k]))

\* the integer assigned to a field, key being "BITS = " and the like
Field(text, key) == DecValue(text, Find(text, key) + 1, 0)

RECURSIVE Segments(_, _, _, _)
\* the quoted segments of the _bitmap literal from position k on: cur is
\* the segment being read, acc the segments closed so far
Segments(text, k, cur, acc) ==
    IF k > Len(text) THEN acc \o <<cur>>
    ELSE IF text[k] = "'\n" THEN acc \o <<cur>>
    ELSE IF text[k] = "'\\\nb'" THEN Segments(text, k + 1, <<>>, acc \o <<cur>>)
    ELSE IF text[k] = "\\x"
         THEN Segments(text, k + 3,
                       cur \o <<16 * HexVal(text[k + 1]) + HexVal(text[k + 2])>>, acc)
    ELSE acc \o <<cur, <<-1>>>>

\* the segments of the literal in the written text
EmittedSegments == Segments(Written, Find(Written, "b'") + 1, <<>>, <<>>)

RECURSIVE Flatten(_)
Flatten(segs) == IF segs = <<>> THEN <<>> ELSE Head(segs) \o Flatten(Tail(segs))

\* the bytes object the concatenated segments evaluate to
EmittedBytes == Flatten(EmittedSegments)

\* bit j (0-based) of a byte sequence read as one MSB-first bitstream
StreamBit(bytes, j) == (bytes[(j \div 8) + 1] \div Pow2(7 - (j % 8))) % 2

\* the value of the bits-wide group number p (0-based) of that bitstream
RECURSIVE GroupValue(_, _, _, _)
GroupValue(bytes, p, bits, k) ==
    IF k >= bits THEN 0
    ELSE StreamBit(bytes, p * bits + k) * Pow2(bits - 1 - k)
         + GroupValue(bytes, p, bits, k + 1)

CeilDiv(a, b) == (a + b - 1) \div b

Finished == pc = "done"

----------------------------------------------------------------------------
(* SpecPack: the Bit Packer and the Module Emitter on every indexed image  *)
(* of at most MaxPixels pixels, at every bpp.                              *)

Shapes(n, side) ==
    { wh \in (0..side) \X (0..side) : wh[1] * wh[2] <= n }

\* every bits_per_pixel, the short palettes first
AllBpps == <<2, 3, 4, 5, 6, 7, 8, 1>>

InitPack ==
    /\ pc = "pack"
    /\ \E b \in DOMAIN AllBpps :
         LET bits == AllBpps[b]
             pal == IF bits = 1 THEN MonoPalette ELSE AdaptivePalette(bits)
             words == PaletteWords(pal, bits)
         IN  /\ bits_per_pixel = bits
             /\ palette = pal
             /\ colors = words
             /\ \E wh \in Shapes(MaxPixels, MaxSide) :
                  \E px \in [1..(wh[1] * wh[2]) -> PixelVals(bits)] :
                     /\ img = Indexed(wh[1], wh[2], px)
                     /\ PlainCall(Source(wh[1], wh[2],
                                         [k \in 1..Len(px) |->
                                             IF bits = 1 THEN px[k] ELSE 255]))
    /\ image_bitstring = None

NextFromPack ==
    \/ PackBits
    \/ Mkdir
    \/ OpenOut
    \/ WriteHeader
    \/ WriteBitmap
    \/ Return

SpecPack == InitPack /\ [][NextFromPack]_vars

\* the index the Bit Packer packs for a pixel: its low bits_per_pixel bits
PackedIndex(p) == img.px[p + 1] % Pow2(bits_per_pixel)

TotalBits == img.width * img.height * bits_per_pixel

\* C1: when W*H*bpp is not a multiple of 8, the last emitted byte holds the
\* remaining bits in its high-order positions and zeros below them
C1_LastBytePaddedLow ==
    (Finished /\ TotalBits % 8 # 0) =>
        LET rest == TotalBits % 8
            tail == SubSeq(image_bitstring, TotalBits - rest + 1, TotalBits)
            last == EmittedBytes[Len(EmittedBytes)]
        IN  /\ last \div Pow2(8 - rest) = IntBase2(tail)
            /\ last % Pow2(8 - rest) = 0

\* C2: the first BITS bits of the emitted bytes, read MSB first and cut
\* into bpp-bit groups, give back the packed index of every pixel
C2_RoundTrip ==
    Finished =>
        \A p \in 0..(img.width * img.height - 1) :
            GroupValue(EmittedBytes, p, bits_per_pixel, 0) = PackedIndex(p)

\* C3: BITS is W*H*bpp, the literal holds ceil(BITS/8) bytes, and no image,
\* the 0x0 one included, makes the run fail
C3_BitsAndLength ==
    /\ pc # "raised"
    /\ Finished =>
          /\ Field(Written, "BITS = ") = TotalBits
          /\ Field(Written, "WIDTH = ") = img.width
          /\ Field(Written, "HEIGHT = ") = img.height
          /\ Len(EmittedBytes) = CeilDiv(TotalBits, 8)
          /\ \A k \in 1..Len(EmittedBytes) : EmittedBytes[k] \in 0..255
          /\ (img.width = 0 /\ img.height = 0) =>
                /\ Field(Written, "BITS = ") = 0
                /\ EmittedSegments = << <<>> >>

\* a 3x1 image at 4 bpp, 12 bits, has been written as two bytes
C3_Witness ==
    /\ Finished /\ img.width = 3 /\ img.height = 1 /\ bits_per_pixel = 4
    /\ Len(EmittedBytes) = 2
    /\ Field(Written, "BITS = ") = 12

\* C4: the bit at stream position (y*W + x)*bpp + k is bit (bpp-1-k) of the
\* index of pixel (x, y), and the stream holds nothing else
C4_BitOrder ==
    pc \in {"mkdir", "openout", "header", "bitmap", "return", "done"} =>
        /\ Len(image_bitstring) = TotalBits
        /\ \A y \in 0..(img.height - 1) : \A x \in 0..(img.width - 1) :
             \A k \in 0..(bits_per_pixel - 1) :
                image_bitstring[(y * img.width + x) * bits_per_pixel + k + 1]
                  = IF (img.px[y * img.width + x + 1]
                          \div Pow2(bits_per_pixel - 1 - k)) % 2 = 1
                    THEN "1" ELSE "0"

\* a 2x2 image at 3 bpp with the indices 2, 4 in its second row is packed
C4_Witness ==
    /\ Finished /\ img.width = 2 /\ img.height = 2 /\ bits_per_pixel = 3
    /\ img.px = <<0, 7, 2, 4>>
    /\ image_bitstring = <<"0", "0", "0", "1", "1", "1", "0", "1", "0", "1", "0", "0">>

----------------------------------------------------------------------------
(* SpecChunk: the Module Emitter on one-row images of up to MaxWide        *)
(* pixels, so that the literal runs to a third segment.                    *)

\* a row of w indices below 2**bits, varied by seed
PatternRow(w, bits, seed) ==
    [k \in 1..w |-> (k * (2 * seed + 1) + 5 * seed) % Pow2(bits)]

InitChunk ==
    /\ pc = "pack"
    /\ \E bits \in {4, 8} :
         LET pal == AdaptivePalette(bits)
             words == PaletteWords(pal, bits)
         IN  /\ bits_per_pixel = bits
             /\ palette = pal
             /\ colors = words
             /\ \E w \in 0..MaxWide : \E seed \in 0..MaxSeed :
                  /\ img = Indexed(w, 1, PatternRow(w, bits, seed))
                  /\ PlainCall(Source(w, 1, [k \in 1..w |-> 255]))
    /\ image_bitstring = None

SpecChunk == InitChunk /\ [][NextFromPack]_vars

\* the packed byte sequence: one byte per group of the bitstring
PackedBytes ==
    [j \in 1..CeilDiv(Len(image_bitstring), 8) |->
        IntBase2(Slice(image_bitstring, 8 * (j - 1), 8 * j))]

\* C10: n packed bytes are emitted as max(1, ceil(n/16)) quoted segments,
\* all of 16 bytes but the last, which holds 1 to 16 (0 only when n = 0),
\* and the segments in order give the n bytes unchanged
C10_Segments ==
    Finished =>
        LET n == Len(PackedBytes)
            segs == EmittedSegments
            count == IF n = 0 THEN 1 ELSE CeilDiv(n, 16)
        IN  /\ Len(segs) = count
            /\ \A s \in 1..(count - 1) : Len(segs[s]) = 16
            /\ Len(segs[count]) <= 16
            /\ (Len(segs[count]) = 0 <=> n = 0)
            /\ Flatten(segs) = PackedBytes

\* 32 bytes have been written as exactly two full segments
C10_Witness ==
    /\ Finished
    /\ Len(PackedBytes) = 32
    /\ Len(EmittedSegments) = 2
    /\ Len(EmittedSegments[2]) = 16

----------------------------------------------------------------------------
(* SpecMono: the 1-bit path from the opened image on, on every grayscale   *)
(* image of at most MaxPixels pixels with luminances around the threshold. *)

Luminances == {0, 127, 128, 255}

InitMono ==
    /\ pc = "quantize"
    /\ bits_per_pixel = 1
    /\ \E wh \in Shapes(MaxPixels, MaxSide) :
         \E lum \in [1..(wh[1] * wh[2]) -> Luminances] :
            /\ img = [width |-> wh[1], height |-> wh[2], mode |-> "L", px |-> lum]
            /\ PlainCall(Source(wh[1], wh[2], lum))
    /\ palette = None /\ colors = None /\ image_bitstring = None

NextFromQuantize ==
    \/ Quantize
    \/ PackPalette
    \/ PackBits
    \/ Mkdir
    \/ OpenOut
    \/ WriteHeader
    \/ WriteBitmap
    \/ Return

SpecMono == InitMono /\ [][NextFromQuantize]_vars

\* the luminance of pixel p (0-based) of the source image
SourceLum(p) == files[image_file].lum[p + 1]

\* the words of the PALETTE line: the text between "PALETTE = [" and "]"
PaletteLine ==
    LET at == Find(Written, "PALETTE = [")
    IN  SubSeq(Written, at + 1, Find(Written, "]\n\n") - 1)

\* C9: at bpp = 1 the bit of every pixel is 1 when its luminance exceeds
\* 127 and 0 otherwise, and PALETTE is exactly black, white: the bit is the
\* index of the colour the pixel was thresholded to
C9_Threshold ==
    Finished =>
        /\ Len(image_bitstring) = img.width * img.height
        /\ \A p \in 0..(img.width * img.height - 1) :
              /\ image_bitstring[p + 1] = (IF SourceLum(p) > 127 THEN "1" ELSE "0")
              /\ SourceLum(p) = 127 => image_bitstring[p + 1] = "0"
              /\ SourceLum(p) = 128 => image_bitstring[p + 1] = "1"
        /\ PaletteLine = <<"0", "x", "0", "0", "0", "0", ",",
                           "0", "x", "f", "f", "f", "f">>
        /\ Field(Written, "COLORS = ") = 2

\* a row of luminances 127, 128, 0, 255 has been written as the bits 0101
C9_Witness ==
    /\ Finished
    /\ files[image_file].lum = <<127, 128, 0, 255>>
    /\ image_bitstring = <<"0", "1", "0", "1">>

----------------------------------------------------------------------------
(* Claims about one call over the file system, checked under Spec.         *)

\* the files that differ from what the call found
Touched ==
    { p \in DOMAIN files : p \notin DOMAIN fs0.files \/ files[p] # fs0.files[p] }

\* the written text is a whole module: from the HEIGHT line to the BITMAP line
WholeArtifact(text) ==
    /\ Len(text) > 0
    /\ text[1] = "HEIGHT = "
    /\ text[Len(text)] = "BITMAP = memoryview(_bitmap)\n"

\* C6: a call of convert_image_to_bitmap with bits_per_pixel outside 1..8
\* fails with ValueError before anything else: whatever the image and the
\* output path are, no directory is created and no file is touched
C6_InvalidBppFailsFirst ==
    (entry = "gui" /\ bits_per_pixel \notin 1..8) =>
        /\ pc \in {"call", "raised"}
        /\ pc = "raised" => result = Raised("ValueError", 53)
        /\ dirs = fs0.dirs
        /\ files = fs0.files

\* bits_per_pixel = 9, the image missing, the output in a missing directory
\* and named without .py: the call has failed with ValueError
C6_Witness ==
    /\ entry = "gui" /\ bits_per_pixel = 9 /\ pc = "raised"
    /\ result = Raised("ValueError", 53)
    /\ ~IsFile(files, image_file)
    /\ output # None /\ output.parent \notin dirs
    /\ output.name = <<"o">>

\* C7 as stated: the returned path is the path written and its extension is
\* .py; without output it is the image path with the extension replaced; an
\* output without the extension .py is corrected before the file is opened
C7_ReturnedPathIsPy ==
    entry = "gui" =>
        /\ \A p \in Touched : p = out_path /\ Suffix(p.name) = DotPy
        /\ Finished =>
              /\ result = out_path
              /\ IsFile(files, result) /\ WholeArtifact(files[result].text)
              /\ Suffix(result.name) = DotPy
              /\ output = None => result = WithSuffixPy(image_file)
              /\ (output # None /\ Suffix(output.name) # DotPy) =>
                    result = WithSuffixPy(output)

\* C7 as the code has it: the extension is .py up to letter case; an output
\* whose extension is .py in any letter case is used as given, any other
\* has its extension replaced by .py before the file is opened
C7_ReturnedPathIsPyAnyCase ==
    entry = "gui" =>
        /\ \A p \in Touched : p = out_path /\ Lower(Suffix(p.name)) = DotPy
        /\ Finished =>
              /\ result = out_path
              /\ IsFile(files, result) /\ WholeArtifact(files[result].text)
              /\ Lower(Suffix(result.name)) = DotPy
              /\ output = None => result = WithSuffixPy(image_file)
              /\ (output # None /\ Lower(Suffix(output.name)) # DotPy) =>
                    /\ result = WithSuffixPy(output)
                    /\ Suffix(result.name) = DotPy
                    /\ output \notin Touched
              /\ (output # None /\ Lower(Suffix(output.name)) = DotPy) =>
                    result = output

\* the output d/e/o.txt has been written as d/e/o.py, and nothing as o.txt
C7_Witness ==
    /\ entry = "gui" /\ Finished
    /\ output = [parent |-> <<"d", "e">>, name |-> <<"o", ".", "t", "x", "t">>]
    /\ result = [parent |-> <<"d", "e">>, name |-> <<"o", ".", "p", "y">>]
    /\ IsFile(files, result) /\ ~IsFile(files, output)

\* C8: in every run, of the engine and of main, the parent directories of
\* the output path exist when the output file is opened, so the open never
\* fails for a missing directory, and what an existing file held is gone
C8_ParentsCreatedBeforeOpen ==
    /\ pc = "openout" => out_path.parent \in dirs
    /\ pc = "raised" => result.raised # "FileNotFoundError" \/ result.line \notin {81, 111}
    /\ pc \in {"header", "bitmap", "return", "done"} =>
          /\ IsFile(files, out_path)
          /\ files[out_path] # OldText
    /\ Finished => WholeArtifact(files[out_path].text)

\* C8 of the engine alone, which does create the directories
C8_EngineCreatesParents == entry = "gui" => C8_ParentsCreatedBeforeOpen

====
